---- MODULE Spec2Model ----
(***************************************************************************)
(* Model of the ENSO staking dashboard's reconstruction core:              *)
(*   - fetch_logs: the paginated log retrieval loop (identical in          *)
(*     dashboard.py, enso_top_stakers.py and enso_staking_tracker.py);     *)
(*   - load_data (dashboard.py): fetch of the six event kinds, the         *)
(*     net-flow series, the positions table and the owner aggregation.     *)
(*                                                                         *)
(* Scaling.  The provider's page cap of 1000 records is modelled by        *)
(* PageCap; every comparison the code makes against 1000 is made against   *)
(* PageCap.  Token amounts are whole tokens (raw value = amount * 10^18),  *)
(* for which the code's float division and float sums are exact.           *)
(***************************************************************************)
EXTENDS Integers, Sequences, FiniteSets, TLC

\* ------------------------------------------------------------------ bounds
\* The page cap (1000 in the code), scaled down.
PageCap == 2
\* The longest log source the fetch loop is run against.
MaxRecs == 2 * PageCap
\* The block numbers of a fetch source.
MaxBlock == 2
\* The longest event log load_data is run against.
MaxEvents == 3
\* The significant bits of a float (53 in the code's doubles), scaled down.
MantissaBits == 5

VARIABLES
    source,      \* fetch loop: the log source's records, in canonical order
    fetch,       \* fetch loop: fetch_logs' locals [from_block, all_logs, pc]
    requests,    \* fetch loop, history: the fromBlock of every request issued
    responses,   \* fetch loop, history: the response to every request
    chain,       \* load_data: the contract's event log, in (block, log index) order
    unreliable,  \* load_data: whether the log source may fail a request
    lpc,         \* load_data: "start", "fetched", "flow", "positions", "returned", "raised"
    event_logs,  \* load_data: the fetched log list of every event kind
    fetch_failed, \* load_data, history: some request got a failure response
    flow_df,     \* load_data: the net-flow series
    positions,   \* load_data: the positions table, in dict (insertion) order
    active_df,   \* load_data: the positions with net_deposited > 0
    owner_df     \* load_data: the ranked owner summaries

fetchVars == <<source, fetch, requests, responses>>
loadVars == <<chain, unreliable, lpc, event_logs, fetch_failed, flow_df, positions,
              active_df, owner_df>>
vars == <<source, fetch, requests, responses, chain, unreliable, lpc, event_logs,
          fetch_failed, flow_df, positions, active_df, owner_df>>

\* ------------------------------------------------------------ sequences
Range(s) == {s[i] : i \in 1..Len(s)}

\* All orderings of the sequence s.
Perms(s) ==
    LET n == Len(s)
        bij == {p \in [1..n -> 1..n] : \A i, j \in 1..n : p[i] = p[j] => i = j}
    IN  {[i \in 1..n |-> s[p[i]]] : p \in bij}

\* The first n elements of s (all of s when it is shorter).
Take(s, n) == SubSeq(s, 1, IF Len(s) < n THEN Len(s) ELSE n)

\* ------------------------------------------------------------ log source
\* The records of src a request with fromBlock = from_block selects, in the
\* source's canonical order, cut at the page cap.
Page(src, from_block) ==
    Take(SelectSeq(src, LAMBDA r : r.block >= from_block), PageCap)

\* What the log source may answer to a request: the page in any record order
\* (status "1"), "No records found" (status "0", empty result), a failure
\* response (status "0", NOTOK: auth or rate limit), or no response at all
\* (requests.get / .json() raises: transport failure).
OkResponses(src, from_block) ==
    LET page == Page(src, from_block)
    IN  IF page = <<>>
        THEN {[kind |-> "empty", status |-> "0", result |-> <<>>]}
        ELSE {[kind |-> "records", status |-> "1", result |-> p] : p \in Perms(page)}

FailureResponse == [kind |-> "failure", status |-> "0", result |-> <<>>]

TransportError == [kind |-> "exception", status |-> "", result |-> <<>>]

Responses(src, from_block) ==
    OkResponses(src, from_block) \cup {FailureResponse, TransportError}

\* A response that is neither success-with-records nor success-empty.
IsFailure(resp) == resp.kind \in {"failure", "exception"}

\* -------------------------------------------------------------- fetch_logs
\* fetch_logs with the page-size test off by one (> instead of >=).
FetchStepStrictCap(st, resp) ==
    IF resp.kind = "exception"
    THEN [st EXCEPT !.pc = "raised"]
    ELSE IF resp.status # "1" \/ resp.result = <<>>
    THEN [st EXCEPT !.pc = "returned"]
    ELSE LET logs == resp.result
         IN  IF Len(logs) > PageCap
             THEN [from_block |-> logs[Len(logs)].block + 1,
                   all_logs   |-> st.all_logs \o logs,
                   pc         |-> "loop"]
             ELSE [st EXCEPT !.all_logs = st.all_logs \o logs, !.pc = "returned"]

\* fetch_logs paginating until an empty page instead of until a short one.
FetchStepUntilEmpty(st, resp) ==
    IF resp.kind = "exception"
    THEN [st EXCEPT !.pc = "raised"]
    ELSE IF resp.status # "1" \/ resp.result = <<>>
    THEN [st EXCEPT !.pc = "returned"]
    ELSE LET logs == resp.result
         IN  [from_block |-> logs[Len(logs)].block + 1,
              all_logs   |-> st.all_logs \o logs,
              pc         |-> "loop"]

FetchStart == [from_block |-> 0, all_logs |-> <<>>, pc |-> "loop"]

\* One iteration of fetch_logs' while loop, given the response to its request.
FetchStep(st, resp) ==
    IF resp.kind = "exception"
    THEN [st EXCEPT !.pc = "raised"]
    ELSE IF resp.status # "1" \/ resp.result = <<>>
    THEN [st EXCEPT !.pc = "returned"]
    ELSE LET logs == resp.result
         IN  IF Len(logs) >= PageCap
             THEN [from_block |-> logs[Len(logs)].block + 1,
                   all_logs   |-> st.all_logs \o logs,
                   pc         |-> "loop"]
             ELSE [st EXCEPT !.all_logs = st.all_logs \o logs, !.pc = "returned"]

\* Block-ascending sources of at most MaxRecs records; idx is the record's
\* place in the source (its log index).
BlockSeqs(n) ==
    {b \in [1..n -> 0..MaxBlock] : \A i \in 1..n : i < n => b[i] <= b[i + 1]}

Sources ==
    UNION {{[i \in 1..n |-> [block |-> b[i], idx |-> i]] : b \in BlockSeqs(n)} :
           n \in 0..MaxRecs}

\* load_data's six log lists, before they are fetched.
NoLogs == [dep_logs |-> <<>>, wth_logs |-> <<>>, rew_i_logs |-> <<>>,
           rew_w_logs |-> <<>>, pc_logs |-> <<>>, tr_logs |-> <<>>]

\* No load_data run (the fetch loop is studied on its own).
LoadIdle ==
    /\ chain = <<>>
    /\ unreliable = FALSE
    /\ lpc = "idle"
    /\ event_logs = NoLogs
    /\ fetch_failed = FALSE
    /\ flow_df = <<>>
    /\ positions = <<>>
    /\ active_df = <<>>
    /\ owner_df = <<>>

\* No fetch_logs call of its own (load_data makes its calls in FetchEvents).
FetchIdle ==
    /\ source = <<>>
    /\ fetch = [FetchStart EXCEPT !.pc = "idle"]
    /\ requests = <<>>
    /\ responses = <<>>

InitFetch ==
    /\ source \in Sources
    /\ fetch = FetchStart
    /\ requests = <<>>
    /\ responses = <<>>
    /\ LoadIdle

\* fetch_logs issues one request and handles its response.
Request ==
    /\ fetch.pc = "loop"
    /\ \E resp \in Responses(source, fetch.from_block) :
          /\ fetch' = FetchStep(fetch, resp)
          /\ requests' = Append(requests, fetch.from_block)
          /\ responses' = Append(responses, resp)
    /\ UNCHANGED <<source, loadVars>>

NextFetch == Request

SpecFetch == InitFetch /\ [][NextFetch]_vars

\* The loop is a running program: a pending request is eventually issued.
FairSpecFetch == SpecFetch /\ WF_vars(NextFetch)

\* ------------------------------------------------------------- event log
\* The event kinds, by the topic0 their logs are fetched with.
Kinds == {"FundsDeposited", "FundsWithdrawn", "RewardsIssued", "RewardsWithdrawn",
          "PositionCreated", "Transfer"}

\* Position.owner before any Transfer was applied (None).
NoOwner == -1

\* The events the contract may emit as its i-th log, in block b, over the
\* universe U of kinds, position ids, owner addresses, amounts and expiries.
\* Every log record carries its block and its log index idx; amount is the
\* scaled float, in units of the model's floats, a deposit adds twice its funds
\* as stake weight, and the validator label of the i-th log is i.
EventsAt(i, b, U) ==
    LET ev(k, pid, amt, stk, own, exp) ==
            [kind |-> k, block |-> b, idx |-> i, pid |-> pid, amount |-> amt,
             stake |-> stk, owner |-> own, expiry |-> exp, validator |-> i]
    IN  {e \in
            {ev("PositionCreated", pid, 0, 0, NoOwner, exp) :
                 pid \in U.ids, exp \in U.expiries}
            \cup {ev("Transfer", pid, 0, 0, own, 0) : pid \in U.ids, own \in U.owners}
            \cup {ev("FundsDeposited", pid, amt, 2 * amt, NoOwner, 0) :
                      pid \in U.ids, amt \in U.amounts[i]}
            \cup {ev("FundsWithdrawn", pid, amt, 0, NoOwner, 0) :
                      pid \in U.ids, amt \in U.amounts[i]}
            \cup {ev(k, 0, amt, 0, NoOwner, 0) :
                      k \in {"RewardsIssued", "RewardsWithdrawn"}, amt \in U.rewards}
         : e.kind \in U.kinds}

\* The event logs of exactly n records over U, block-ascending.
RECURSIVE ChainsOfLen(_, _)
ChainsOfLen(n, U) ==
    IF n = 0 THEN {<<>>}
    ELSE UNION {{Append(c, e) :
                    e \in UNION {EventsAt(n, b, U) :
                                    b \in {b \in U.blocks : n = 1 \/ c[n - 1].block <= b}}} :
                c \in ChainsOfLen(n - 1, U)}

Chains(U) == UNION {ChainsOfLen(n, U) : n \in 0..U.maxlen}

\* The log source of one event kind: the chain's records with that topic0.
OfKind(c, k) == SelectSeq(c, LAMBDA e : e.kind = k)

\* ------------------------------------------------- load_data: fetch stage
\* Every way a fetch_logs call can end on the source src: the loop run to its
\* end under every answer the source may give (failures only when u).
RECURSIVE FetchRuns(_, _, _, _)
FetchRuns(src, st, failed, u) ==
    IF st.pc # "loop"
    THEN {[all_logs |-> st.all_logs, pc |-> st.pc, failed |-> failed]}
    ELSE UNION {FetchRuns(src, FetchStep(st, resp), failed \/ IsFailure(resp), u) :
                resp \in IF u THEN Responses(src, st.from_block)
                              ELSE OkResponses(src, st.from_block)}

fetch_logs(c, k, u) == FetchRuns(OfKind(c, k), FetchStart, FALSE, u)

\* load_data before it runs, on the event log c.
LoadStart(c, u) ==
    /\ chain = c
    /\ unreliable = u
    /\ lpc = "start"
    /\ event_logs = NoLogs
    /\ fetch_failed = FALSE
    /\ flow_df = <<>>
    /\ positions = <<>>
    /\ active_df = <<>>
    /\ owner_df = <<>>

\* load_data's six fetch_logs calls; an exception in one of them ends load_data.
FetchEvents ==
    /\ lpc = "start"
    /\ \E dep \in fetch_logs(chain, "FundsDeposited", unreliable),
          wth \in fetch_logs(chain, "FundsWithdrawn", unreliable),
          rew_i \in fetch_logs(chain, "RewardsIssued", unreliable),
          rew_w \in fetch_logs(chain, "RewardsWithdrawn", unreliable),
          pc \in fetch_logs(chain, "PositionCreated", unreliable),
          tr \in fetch_logs(chain, "Transfer", unreliable) :
          LET calls == <<dep, wth, rew_i, rew_w, pc, tr>>
          IN  /\ fetch_failed' = \E i \in 1..6 : calls[i].failed
              /\ IF \E i \in 1..6 : calls[i].pc = "raised"
                 THEN lpc' = "raised" /\ event_logs' = NoLogs
                 ELSE /\ lpc' = "fetched"
                      /\ event_logs' = [dep_logs |-> dep.all_logs, wth_logs |-> wth.all_logs,
                                  rew_i_logs |-> rew_i.all_logs,
                                  rew_w_logs |-> rew_w.all_logs,
                                  pc_logs |-> pc.all_logs, tr_logs |-> tr.all_logs]
    /\ UNCHANGED <<fetchVars, chain, unreliable, flow_df, positions, active_df, owner_df>>

\* -------------------------------------------- load_data: net-flow series
\* The sum of a sequence of numbers.
RECURSIVE Sum(_)
Sum(s) == IF s = <<>> THEN 0 ELSE s[1] + Sum(Tail(s))

\* Token amounts are floats in the code: decode_word(...) / 10**DECIMALS.  The
\* model writes a float as a multiple of a unit and keeps MantissaBits
\* significant bits of it.  The place value of the last kept bit of m, from u up.
RECURSIVE UlpFrom(_, _)
UlpFrom(m, u) == IF m \div u < 2 ^ MantissaBits THEN u ELSE UlpFrom(m, 2 * u)

\* The float nearest to x, ties to the even mantissa (IEEE 754 default).
RoundNearestEven(x) ==
    LET m == IF x < 0 THEN 0 - x ELSE x
        u == UlpFrom(m, 1)
        q == m \div u
        r == m % u
        n == IF 2 * r > u \/ (2 * r = u /\ q % 2 = 1) THEN (q + 1) * u ELSE q * u
    IN  IF x < 0 THEN 0 - n ELSE n

\* a + b on floats.
FAdd(a, b) == RoundNearestEven(a + b)

\* The float sum of a column, added up row by row.
RECURSIVE FSum(_)
FSum(s) ==
    IF s = <<>> THEN 0 ELSE FAdd(FSum(SubSeq(s, 1, Len(s) - 1)), s[Len(s)])

\* One row of flow_rows.  idx is not a column of the code's row: it names the
\* log record the row was made from.
FlowRow(log, event, sign) ==
    [block |-> log.block, event |-> event, amount |-> log.amount,
     net_flow |-> sign * log.amount, idx |-> log.idx]

\* flow_rows with the rewards issued counted as inflow.
FlowRowsCountingRewards(L) ==
    [i \in 1..Len(L.dep_logs) |-> FlowRow(L.dep_logs[i], "Deposit", 1)]
    \o [i \in 1..Len(L.wth_logs) |-> FlowRow(L.wth_logs[i], "Withdrawal", -1)]
    \o [i \in 1..Len(L.rew_i_logs) |-> FlowRow(L.rew_i_logs[i], "Rewards Issued", 1)]
    \o [i \in 1..Len(L.rew_w_logs) |-> FlowRow(L.rew_w_logs[i], "Rewards Withdrawn", 0)]

\* flow_rows: the deposits, then the withdrawals, then the two rewards kinds.
FlowRows(L) ==
    [i \in 1..Len(L.dep_logs) |-> FlowRow(L.dep_logs[i], "Deposit", 1)]
    \o [i \in 1..Len(L.wth_logs) |-> FlowRow(L.wth_logs[i], "Withdrawal", -1)]
    \o [i \in 1..Len(L.rew_i_logs) |-> FlowRow(L.rew_i_logs[i], "Rewards Issued", 0)]
    \o [i \in 1..Len(L.rew_w_logs) |-> FlowRow(L.rew_w_logs[i], "Rewards Withdrawn", 0)]

\* The index orders an argsort of keys may return.  The sort is pandas'
\* default kind (quicksort), which is not stable: equal keys come out in any
\* order.
RECURSIVE ArgSortsOf(_, _)
ArgSortsOf(keys, I) ==
    IF I = {} THEN {<<>>}
    ELSE UNION {{<<i>> \o t : t \in ArgSortsOf(keys, I \ {i})} :
                i \in {i \in I : \A j \in I : keys[i] <= keys[j]}}

ArgSort(keys) == ArgSortsOf(keys, DOMAIN keys)

\* df.sort_values(...) on a column of values keys, ascending, followed by
\* reset_index(drop=True).
SortValues(df, keys) ==
    {[i \in 1..Len(df) |-> df[o[i]]] : o \in ArgSort(keys)}

\* df["cumulative_net_staked"] = df["net_flow"].cumsum()
CumSum(df) ==
    [i \in 1..Len(df) |->
        [block |-> df[i].block, event |-> df[i].event, amount |-> df[i].amount,
         net_flow |-> df[i].net_flow, idx |-> df[i].idx,
         cumulative_net_staked |->
             FSum([j \in 1..i |-> df[j].net_flow])]]

\* The flow DataFrames load_data may build from the rows (none when there is
\* no row: the frame then has no "timestamp" column and load_data raises).
FlowFrames(rows) ==
    {CumSum(df) : df \in SortValues(rows, [i \in 1..Len(rows) |-> rows[i].block])}

\* ------------------------------------------- load_data: positions table
\* The place of position pid in the table (dict order), 0 when it has none.
IndexOf(pos, pid) ==
    IF \E i \in 1..Len(pos) : pos[i].position_id = pid
    THEN CHOOSE i \in 1..Len(pos) : pos[i].position_id = pid
    ELSE 0

\* positions[pid] = {...}: a new key goes last, an existing key keeps its place.
ApplyCreated(pos, log) ==
    LET new == [position_id |-> log.pid, expiry_ts |-> log.expiry,
                validator |-> log.validator, owner |-> NoOwner,
                net_deposited |-> 0, stake |-> 0]
        i == IndexOf(pos, log.pid)
    IN  IF i = 0 THEN Append(pos, new) ELSE [pos EXCEPT ![i] = new]

ApplyTransfer(pos, log) ==
    LET i == IndexOf(pos, log.pid)
    IN  IF i # 0 THEN [pos EXCEPT ![i].owner = log.owner] ELSE pos

\* A deposit that creates the position it references when there is none.
ApplyDepositImplicit(pos, log) ==
    LET i == IndexOf(pos, log.pid)
    IN  IF i # 0
        THEN [pos EXCEPT ![i].net_deposited = FAdd(@, log.amount),
                         ![i].stake = FAdd(@, log.stake)]
        ELSE Append(pos, [position_id |-> log.pid, expiry_ts |-> 0,
                          validator |-> 0, owner |-> NoOwner,
                          net_deposited |-> log.amount, stake |-> log.stake])

ApplyDeposit(pos, log) ==
    LET i == IndexOf(pos, log.pid)
    IN  IF i # 0
        THEN [pos EXCEPT ![i].net_deposited = FAdd(@, log.amount),
                         ![i].stake = FAdd(@, log.stake)]
        ELSE pos

\* A withdrawal that stops at a balance of zero.
ApplyWithdrawalClamped(pos, log) ==
    LET i == IndexOf(pos, log.pid)
    IN  IF i # 0
        THEN [pos EXCEPT ![i].net_deposited = IF @ < log.amount THEN 0 ELSE FAdd(@, 0 - log.amount)]
        ELSE pos

\* A withdrawal that takes the funds out of the stake weight as well.
ApplyWithdrawalUnstaking(pos, log) ==
    LET i == IndexOf(pos, log.pid)
    IN  IF i # 0
        THEN [pos EXCEPT ![i].net_deposited = FAdd(@, 0 - log.amount),
                         ![i].stake = FAdd(@, 0 - log.amount)]
        ELSE pos

ApplyWithdrawal(pos, log) ==
    LET i == IndexOf(pos, log.pid)
    IN  IF i # 0 THEN [pos EXCEPT ![i].net_deposited = FAdd(@, 0 - log.amount)] ELSE pos

\* The body of the loop over one kind's log list.
Apply(pos, log) ==
    CASE log.kind = "PositionCreated" -> ApplyCreated(pos, log)
      [] log.kind = "Transfer" -> ApplyTransfer(pos, log)
      [] log.kind = "FundsDeposited" -> ApplyDeposit(pos, log)
      [] log.kind = "FundsWithdrawn" -> ApplyWithdrawal(pos, log)
      [] OTHER -> pos

\* for log in list: ...
RECURSIVE ApplyAll(_, _)
ApplyAll(pos, list) ==
    IF list = <<>> THEN pos ELSE ApplyAll(Apply(pos, list[1]), Tail(list))

\* The four loops, kind by kind: creations, transfers, deposits, withdrawals.
BuildPositions(L) ==
    ApplyAll(ApplyAll(ApplyAll(ApplyAll(<<>>, L.pc_logs), L.tr_logs), L.dep_logs),
             L.wth_logs)

\* The records in the order the four loops apply them, and the table after
\* the first k of them.
Steps(L) == L.pc_logs \o L.tr_logs \o L.dep_logs \o L.wth_logs

TableAfter(L, k) == ApplyAll(<<>>, Take(Steps(L), k))

\* ---------------------------------------------- load_data: aggregation
\* The filter keeping the positions that are settled to zero as well.
ActiveOrSettled(pos) == SelectSeq(pos, LAMBDA p : p.net_deposited >= 0)

\* pos_df[pos_df["net_deposited"] > 0]
Active(pos) == SelectSeq(pos, LAMBDA p : p.net_deposited > 0)

Min(S) == CHOOSE x \in S : \A y \in S : x <= y

Max(S) == CHOOSE x \in S : \A y \in S : x >= y

\* The elements of a set of numbers, ascending.
RECURSIVE Ascending(_)
Ascending(S) == IF S = {} THEN <<>> ELSE <<Min(S)>> \o Ascending(S \ {Min(S)})

\* groupby("owner"): the group keys, sorted; rows whose owner is None are in
\* no group (dropna).
GroupKeys(df) == Ascending({df[i].owner : i \in 1..Len(df)} \ {NoOwner})

\* The aggregation with the two unlock columns taken from the wrong extreme.
OwnerRowUnlocksSwapped(df, owner) ==
    LET grp == SelectSeq(df, LAMBDA p : p.owner = owner)
    IN  [owner |-> owner,
         total_staked |-> FSum([i \in 1..Len(grp) |-> grp[i].net_deposited]),
         total_stake_weight |-> FSum([i \in 1..Len(grp) |-> grp[i].stake]),
         num_positions |-> Len(grp),
         earliest_unlock |-> Max({grp[i].expiry_ts : i \in 1..Len(grp)}),
         latest_unlock |-> Min({grp[i].expiry_ts : i \in 1..Len(grp)})]

\* .agg(...) of one group, then reset_index().
\* A group of the model has at most two rows, for which
\* the sum is one float addition whatever the summation scheme.
OwnerRow(df, owner) ==
    LET grp == SelectSeq(df, LAMBDA p : p.owner = owner)
    IN  [owner |-> owner,
         total_staked |-> FSum([i \in 1..Len(grp) |-> grp[i].net_deposited]),
         total_stake_weight |-> FSum([i \in 1..Len(grp) |-> grp[i].stake]),
         num_positions |-> Len(grp),
         earliest_unlock |-> Min({grp[i].expiry_ts : i \in 1..Len(grp)}),
         latest_unlock |-> Max({grp[i].expiry_ts : i \in 1..Len(grp)})]

GroupByOwner(df) ==
    LET keys == GroupKeys(df)
    IN  [g \in 1..Len(keys) |-> OwnerRow(df, keys[g])]

\* owner_df["rank"] = range(1, len(owner_df) + 1)
WithRank(df) ==
    [i \in 1..Len(df) |->
        [owner |-> df[i].owner, total_staked |-> df[i].total_staked,
         total_stake_weight |-> df[i].total_stake_weight,
         num_positions |-> df[i].num_positions,
         earliest_unlock |-> df[i].earliest_unlock,
         latest_unlock |-> df[i].latest_unlock, rank |-> i]]

\* The owner summaries load_data may build: grouped, sorted by total_staked
\* descending (ascending in its negation), ranked.
OwnerFrames(active) ==
    LET groups == GroupByOwner(active)
    IN  {WithRank(df) :
            df \in SortValues(groups,
                              [g \in 1..Len(groups) |-> 0 - groups[g].total_staked])}

\* load_data builds the flow frame.  With no flow row the frame has no
\* columns and flow_df["timestamp"] raises KeyError.
BuildFlow ==
    /\ lpc = "fetched"
    /\ LET rows == FlowRows(event_logs)
       IN  IF rows = <<>>
           THEN lpc' = "raised" /\ UNCHANGED flow_df
           ELSE lpc' = "flow" /\ flow_df' \in FlowFrames(rows)
    /\ UNCHANGED <<fetchVars, chain, unreliable, event_logs, fetch_failed, positions,
                   active_df, owner_df>>

\* load_data builds the positions table and keeps its active rows.  With no
\* position the frame has no columns and pos_df["expiry_ts"] raises KeyError.
BuildTable ==
    /\ lpc = "flow"
    /\ LET pos == BuildPositions(event_logs)
       IN  IF pos = <<>>
           THEN lpc' = "raised" /\ UNCHANGED <<positions, active_df>>
           ELSE lpc' = "positions" /\ positions' = pos /\ active_df' = Active(pos)
    /\ UNCHANGED <<fetchVars, chain, unreliable, event_logs, fetch_failed, flow_df,
                   owner_df>>

\* load_data aggregates by owner and returns flow_df, active_df, owner_df.
Aggregate ==
    /\ lpc = "positions"
    /\ owner_df' \in OwnerFrames(active_df)
    /\ lpc' = "returned"
    /\ UNCHANGED <<fetchVars, chain, unreliable, event_logs, fetch_failed, flow_df,
                   positions, active_df>>

\* ------------------------------------------------------ specifications
\* load_data on every event log of at most MaxEvents records over two
\* positions and two owners, against a log source that answers every request.
Universe ==
    [kinds |-> Kinds, ids |-> {1, 2}, owners |-> {1, 2},
     amounts |-> [i \in 1..MaxEvents |-> {1}], rewards |-> {1},
     expiries |-> {100}, blocks |-> {1, 2}, maxlen |-> MaxEvents]

Init == FetchIdle /\ \E c \in Chains(Universe) : LoadStart(c, FALSE)

Next == FetchEvents \/ BuildFlow \/ BuildTable \/ Aggregate

Spec == Init /\ [][Next]_vars

\* load_data on the event logs of creations, deposits and withdrawals; the
\* i-th log moves 2^(i-1) tokens, so that a sum of amounts names its events.
LedgerUniverse ==
    [kinds |-> {"PositionCreated", "FundsDeposited", "FundsWithdrawn"},
     ids |-> {1, 2}, owners |-> {},
     amounts |-> [i \in 1..MaxEvents |-> {2 ^ (i - 1)}], rewards |-> {},
     expiries |-> {100}, blocks |-> {1, 2}, maxlen |-> MaxEvents]

InitLedger == FetchIdle /\ \E c \in Chains(LedgerUniverse) : LoadStart(c, FALSE)

SpecLedger == InitLedger /\ [][Next]_vars

\* load_data on the event logs of one position and two owners, one record
\* longer.
OwnershipUniverse ==
    [Universe EXCEPT !.ids = {1}, !.maxlen = MaxEvents + 1,
                     !.amounts = [i \in 1..(MaxEvents + 1) |-> {1}]]

InitOwnership == FetchIdle /\ \E c \in Chains(OwnershipUniverse) : LoadStart(c, FALSE)

SpecOwnership == InitOwnership /\ [][Next]_vars

\* load_data against a log source that may fail any request, on the event
\* logs of at most two records.
InitUnreliable ==
    FetchIdle /\ \E c \in Chains([Universe EXCEPT !.maxlen = 2]) : LoadStart(c, TRUE)

SpecUnreliable == InitUnreliable /\ [][Next]_vars

\* The answer of a log source that lists every page in canonical order.
InOrderResponse(src, from_block) ==
    LET page == Page(src, from_block)
    IN  IF page = <<>>
        THEN [kind |-> "empty", status |-> "0", result |-> <<>>]
        ELSE [kind |-> "records", status |-> "1", result |-> page]

\* The list fetch_logs returns against such a source.
RECURSIVE FetchRunInOrder(_, _)
FetchRunInOrder(src, st) ==
    IF st.pc # "loop" THEN st.all_logs
    ELSE FetchRunInOrder(src, FetchStep(st, InOrderResponse(src, st.from_block)))

\* load_data's six fetch_logs calls against a log source that answers every
\* request and lists every page in canonical order.
FetchEventsInOrder ==
    /\ lpc = "start"
    /\ lpc' = "fetched"
    /\ fetch_failed' = FALSE
    /\ event_logs' =
           [dep_logs |-> FetchRunInOrder(OfKind(chain, "FundsDeposited"), FetchStart),
            wth_logs |-> FetchRunInOrder(OfKind(chain, "FundsWithdrawn"), FetchStart),
            rew_i_logs |-> FetchRunInOrder(OfKind(chain, "RewardsIssued"), FetchStart),
            rew_w_logs |-> FetchRunInOrder(OfKind(chain, "RewardsWithdrawn"), FetchStart),
            pc_logs |-> FetchRunInOrder(OfKind(chain, "PositionCreated"), FetchStart),
            tr_logs |-> FetchRunInOrder(OfKind(chain, "Transfer"), FetchStart)]
    /\ UNCHANGED <<fetchVars, chain, unreliable, flow_df, positions, active_df, owner_df>>

NextInOrder == FetchEventsInOrder \/ BuildFlow \/ BuildTable \/ Aggregate

\* The event logs that continue the log prefix with exactly n records over U,
\* every further record in the block after the one before it.
ExtensionsOfLen(prefix, n, U) ==
    LET m == Len(prefix)
        place(e, i) == [e EXCEPT !.idx = i, !.validator = i,
                                 !.block = prefix[m].block + (i - m)]
    IN  {prefix \o [j \in 1..n |-> place(f[j], m + j)] :
            f \in [1..n -> EventsAt(m + 1, 0, U)]}

\* Two positions with different expiries, the first one transferred to owner 1
\* and funded with one token.
PortfolioPrefix ==
    <<[kind |-> "PositionCreated", block |-> 1, idx |-> 1, pid |-> 1, amount |-> 0,
       stake |-> 0, owner |-> NoOwner, expiry |-> 100, validator |-> 1],
      [kind |-> "PositionCreated", block |-> 2, idx |-> 2, pid |-> 2, amount |-> 0,
       stake |-> 0, owner |-> NoOwner, expiry |-> 200, validator |-> 2],
      [kind |-> "Transfer", block |-> 3, idx |-> 3, pid |-> 1, amount |-> 0,
       stake |-> 0, owner |-> 1, expiry |-> 0, validator |-> 3],
      [kind |-> "FundsDeposited", block |-> 4, idx |-> 4, pid |-> 1, amount |-> 1,
       stake |-> 2, owner |-> NoOwner, expiry |-> 0, validator |-> 4]>>

\* load_data on the event logs that continue PortfolioPrefix with at most
\* MaxEvents transfers, deposits and withdrawals of one or two tokens.
PortfolioUniverse ==
    [kinds |-> {"Transfer", "FundsDeposited", "FundsWithdrawn"},
     ids |-> {1, 2}, owners |-> {1, 2},
     amounts |-> [i \in 1..(Len(PortfolioPrefix) + MaxEvents) |-> {1, 2}],
     rewards |-> {}, expiries |-> {}, blocks |-> {}, maxlen |-> MaxEvents]

InitPortfolio ==
    /\ FetchIdle
    /\ \E n \in 0..PortfolioUniverse.maxlen :
          \E c \in ExtensionsOfLen(PortfolioPrefix, n, PortfolioUniverse) :
              LoadStart(c, FALSE)

SpecPortfolio == InitPortfolio /\ [][NextInOrder]_vars

\* load_data on the event logs of one position with its deposits and
\* withdrawals and the rewards of three tokens issued and withdrawn beside them.
RewardsUniverse ==
    [kinds |-> {"PositionCreated", "FundsDeposited", "FundsWithdrawn",
                "RewardsIssued", "RewardsWithdrawn"},
     ids |-> {1}, owners |-> {},
     amounts |-> [i \in 1..MaxEvents |-> {1}], rewards |-> {3},
     expiries |-> {100}, blocks |-> {1, 2}, maxlen |-> MaxEvents]

InitRewards == FetchIdle /\ \E c \in Chains(RewardsUniverse) : LoadStart(c, FALSE)

SpecRewards == InitRewards /\ [][Next]_vars

\* The event logs that continue the log prefix with exactly n records over U,
\* in the blocks of U, block-ascending.
ContinuationsOfLen(prefix, n, U) ==
    LET m == Len(prefix)
        place(e, i, b) == [e EXCEPT !.idx = i, !.validator = i, !.block = b]
    IN  {prefix \o [j \in 1..n |-> place(f[j], m + j, g[j])] :
            f \in [1..n -> EventsAt(m + 1, 0, U)],
            g \in {g \in [1..n -> U.blocks] :
                      /\ \A j \in 1..n : prefix[m].block <= g[j]
                      /\ \A j \in 1..n : j < n => g[j] <= g[j + 1]}}

\* A position created in block 1.
FoldPrefix ==
    <<[kind |-> "PositionCreated", block |-> 1, idx |-> 1, pid |-> 1, amount |-> 0,
       stake |-> 0, owner |-> NoOwner, expiry |-> 100, validator |-> 1]>>

\* load_data on the event logs that continue FoldPrefix with at most MaxEvents
\* creations, transfers, deposits and withdrawals of the same position.
FoldUniverse ==
    [kinds |-> {"PositionCreated", "Transfer", "FundsDeposited", "FundsWithdrawn"},
     ids |-> {1}, owners |-> {1, 2},
     amounts |-> [i \in 1..(Len(FoldPrefix) + MaxEvents) |-> {1}],
     rewards |-> {}, expiries |-> {200}, blocks |-> {1, 2}, maxlen |-> MaxEvents]

InitFold ==
    /\ FetchIdle
    /\ \E n \in 0..FoldUniverse.maxlen :
          \E c \in ContinuationsOfLen(FoldPrefix, n, FoldUniverse) : LoadStart(c, FALSE)

SpecFold == InitFold /\ [][Next]_vars

\* Two positions, the first held by owner 1 and the second by owner 2.
ConservationPrefix ==
    <<[kind |-> "PositionCreated", block |-> 1, idx |-> 1, pid |-> 1, amount |-> 0,
       stake |-> 0, owner |-> NoOwner, expiry |-> 100, validator |-> 1],
      [kind |-> "PositionCreated", block |-> 2, idx |-> 2, pid |-> 2, amount |-> 0,
       stake |-> 0, owner |-> NoOwner, expiry |-> 200, validator |-> 2],
      [kind |-> "Transfer", block |-> 3, idx |-> 3, pid |-> 1, amount |-> 0,
       stake |-> 0, owner |-> 1, expiry |-> 0, validator |-> 3],
      [kind |-> "Transfer", block |-> 4, idx |-> 4, pid |-> 2, amount |-> 0,
       stake |-> 0, owner |-> 2, expiry |-> 0, validator |-> 4]>>

\* load_data on the event logs that continue ConservationPrefix with at most
\* MaxEvents deposits and withdrawals to the two positions and to an id never
\* created, of amounts that fill the floats' significant bits: one and two
\* units and the largest amount with MantissaBits bits.
ConservationUniverse ==
    [kinds |-> {"FundsDeposited", "FundsWithdrawn"},
     ids |-> {1, 2, 3}, owners |-> {},
     amounts |-> [i \in 1..(Len(ConservationPrefix) + MaxEvents) |->
                     {1, 2, 2 ^ MantissaBits - 1}],
     rewards |-> {}, expiries |-> {}, blocks |-> {}, maxlen |-> MaxEvents]

InitConservation ==
    /\ FetchIdle
    /\ \E n \in 0..ConservationUniverse.maxlen :
          \E c \in ExtensionsOfLen(ConservationPrefix, n, ConservationUniverse) :
              LoadStart(c, FALSE)

SpecConservation == InitConservation /\ [][NextInOrder]_vars

\* ------------------------------------------------- fetch_logs: properties
\* The concatenation of the results of responses 1..n.
RECURSIVE Accumulated(_, _)
Accumulated(resps, n) ==
    IF n = 0 THEN <<>> ELSE Accumulated(resps, n - 1) \o resps[n].result

FullPage(resp) == resp.kind = "records" /\ Len(resp.result) = PageCap

ShortPage(resp) == resp.kind \in {"records", "empty"} /\ Len(resp.result) < PageCap

LastBlock(resp) == resp.result[Len(resp.result)].block

\* How often the record r occurs in the sequence s.
Occurrences(s, r) == Cardinality({i \in 1..Len(s) : s[i] = r})

\* The records of the page come in block order.
BlockSorted(page) == \A i, j \in 1..Len(page) : i < j => page[i].block <= page[j].block

\* C1: when fetch_logs returns and no request failed, the returned list holds
\* every record of the source exactly once (none twice, none skipped); stated
\* here for the sources that answer with block-sorted pages, a case of the claim.
C1_EveryRecordExactlyOnce ==
    (/\ fetch.pc = "returned"
     /\ \A i \in 1..Len(responses) :
           ~IsFailure(responses[i]) /\ BlockSorted(responses[i].result))
        => \A r \in Range(source) : Occurrences(fetch.all_logs, r) = 1

\* C2: the first request has fromBlock 0; after every full page a further
\* request is issued with fromBlock = block of the page's last record + 1; a
\* source of PageCap-1 records is fetched with exactly one request.
C2_CursorAndRequestCount ==
    /\ fetch.pc = "loop" /\ requests = <<>> => fetch.from_block = 0
    /\ requests # <<>> => requests[1] = 0
    /\ \A i \in 1..Len(responses) :
          FullPage(responses[i]) =>
              IF i < Len(requests)
              THEN requests[i + 1] = LastBlock(responses[i]) + 1
              ELSE fetch.pc = "loop" /\ fetch.from_block = LastBlock(responses[i]) + 1
    /\ Len(source) = PageCap - 1 =>
          /\ Len(requests) <= 1
          /\ fetch.pc # "loop" => Len(requests) = 1

C2_SecondPageRequested ==
    /\ fetch.pc = "returned"
    /\ Len(requests) >= 2
    /\ FullPage(responses[1])
    /\ requests[2] = LastBlock(responses[1]) + 1

\* C3: once a request got a failure response, fetch_logs does not return
\* normally: it ends by raising.
C3_FailureIsRaised ==
    (\E i \in 1..Len(responses) : IsFailure(responses[i])) => fetch.pc = "raised"

\* C5: a page shorter than the cap (an empty one included) is the last request
\* issued, fetch_logs then returns the records accumulated over all pages
\* without raising; and on every (finite) source the loop ends.
C5_ShortPageEnds ==
    \A i \in 1..Len(responses) :
        ShortPage(responses[i]) =>
            /\ i = Len(responses)
            /\ fetch.pc = "returned"
            /\ fetch.all_logs = Accumulated(responses, i)

C5_ShortPageTerminates == []C5_ShortPageEnds /\ <>(fetch.pc # "loop")

C5_ReturnedAfterShortPage ==
    /\ Len(responses) >= 2
    /\ ShortPage(responses[Len(responses)])
    /\ responses[Len(responses)].kind = "records"
    /\ fetch.pc = "returned"

\* -------------------------------------------------- load_data: properties
\* a precedes b in (block, log index) order.
Before(a, b) == a.block < b.block \/ (a.block = b.block /\ a.idx < b.idx)

\* The records of a fetched list that reference position pid.
LogsOf(list, pid) == SelectSeq(list, LAMBDA log : log.pid = pid)

Amounts(list) == Sum([i \in 1..Len(list) |-> list[i].amount])

Stakes(list) == Sum([i \in 1..Len(list) |-> list[i].stake])

CreatedIds == {log.pid : log \in Range(event_logs.pc_logs)}

\* C4: a run in which some request got a failure response publishes no view
\* (load_data does not return its frames).
C4_NoViewsAfterFetchFailure == fetch_failed => lpc # "returned"

\* C6: a deposit, withdrawal or transfer ordered before the (one) creation of
\* its position has no effect: the position's balances are those of the deposits
\* and withdrawals after the creation, and its owner comes from a transfer
\* after the creation (and is unset when there is none).
C6_EventsBeforeCreationAreNoOps ==
    lpc = "returned" =>
        \A i \in 1..Len(positions) :
            LET p == positions[i]
                created == LogsOf(event_logs.pc_logs, p.position_id)
                after(list) == SelectSeq(LogsOf(list, p.position_id),
                                         LAMBDA log : Before(created[1], log))
            IN  Len(created) = 1 =>
                    /\ p.net_deposited = Amounts(after(event_logs.dep_logs))
                                         - Amounts(after(event_logs.wth_logs))
                    /\ p.stake = Stakes(after(event_logs.dep_logs))
                    /\ IF after(event_logs.tr_logs) = <<>>
                       THEN p.owner = NoOwner
                       ELSE \E t \in Range(after(event_logs.tr_logs)) : p.owner = t.owner

\* C7: a deposit or withdrawal whose position id was never created adds no
\* entry to the positions table and changes no position (every position's
\* balances are those of the events of its own id), and its signed amount is a
\* sample of the net-flow series all the same.
C7_UnknownIdTolerance ==
    /\ lpc \in {"positions", "returned"} =>
          /\ \A i \in 1..Len(positions) : positions[i].position_id \in CreatedIds
          /\ Len(positions) = Cardinality(CreatedIds)
          /\ \A i \in 1..Len(positions) :
                LET p == positions[i]
                IN  /\ p.net_deposited =
                           Amounts(LogsOf(event_logs.dep_logs, p.position_id))
                           - Amounts(LogsOf(event_logs.wth_logs, p.position_id))
                    /\ p.stake = Stakes(LogsOf(event_logs.dep_logs, p.position_id))
    /\ lpc \in {"flow", "positions", "returned"} =>
          /\ \A log \in Range(event_logs.dep_logs) :
                log.pid \notin CreatedIds =>
                    \E j \in 1..Len(flow_df) :
                        flow_df[j].idx = log.idx /\ flow_df[j].net_flow = log.amount
          /\ \A log \in Range(event_logs.wth_logs) :
                log.pid \notin CreatedIds =>
                    \E j \in 1..Len(flow_df) :
                        flow_df[j].idx = log.idx /\ flow_df[j].net_flow = 0 - log.amount
          /\ Len(flow_df) = Len(FlowRows(event_logs))
          /\ flow_df[Len(flow_df)].cumulative_net_staked =
                 Amounts(event_logs.dep_logs) - Amounts(event_logs.wth_logs)

C7_UnknownDepositBesideAPosition ==
    /\ lpc = "returned"
    /\ \E log \in Range(event_logs.dep_logs) : log.pid \notin CreatedIds
    /\ \E i \in 1..Len(positions) : positions[i].net_deposited > 0

\* The sort of the flow frame left rows of equal block in flow_rows' order (the
\* outcome of a stable sort).
FlowTiesKept ==
    LET rows == FlowRows(event_logs)
    IN  \E o \in ArgSort([i \in 1..Len(rows) |-> rows[i].block]) :
            /\ \A i, j \in 1..Len(o) :
                  (i < j /\ rows[o[i]].block = rows[o[j]].block) => o[i] < o[j]
            /\ flow_df = CumSum([i \in 1..Len(rows) |-> rows[o[i]]])

\* Every fetched list is in (block, log index) order.
ListsInEmissionOrder ==
    \A list \in {event_logs.dep_logs, event_logs.wth_logs, event_logs.rew_i_logs,
                 event_logs.rew_w_logs} :
        \A i, j \in 1..Len(list) : i < j => Before(list[i], list[j])

\* C8: the net-flow series is in (block, log index) order, events of one block
\* in their emission order, and its cumulative column is the running sum;
\* stated here for the runs whose pages came in emission order and whose sort
\* kept equal blocks in row order, a case of the claim.
C8_FlowInEmissionOrder ==
    (lpc = "returned" /\ ListsInEmissionOrder /\ FlowTiesKept) =>
        /\ \A i, j \in 1..Len(flow_df) : i < j => ~Before(flow_df[j], flow_df[i])
        /\ \A i \in 1..Len(flow_df) :
              flow_df[i].cumulative_net_staked =
                  Sum([j \in 1..i |-> flow_df[j].net_flow])

\* Every position is created once, before every event that references it.
CreatedFirst ==
    \A c \in Range(event_logs.pc_logs) :
        /\ Len(LogsOf(event_logs.pc_logs, c.pid)) = 1
        /\ \A log \in Range(event_logs.tr_logs) \cup Range(event_logs.dep_logs)
                      \cup Range(event_logs.wth_logs) :
              log.pid = c.pid => Before(c, log)

\* C9: the owner of a position is the new owner of the transfer of its id that
\* is last in (block, log index) order, whatever the order of the records
\* inside a page; stated here for the logs that create every position first.
C9_LastTransferWins ==
    (lpc = "returned" /\ CreatedFirst) =>
        \A i \in 1..Len(positions) :
            LET transfers == Range(LogsOf(event_logs.tr_logs, positions[i].position_id))
            IN  \A t \in transfers :
                    (\A u \in transfers : ~Before(t, u)) => positions[i].owner = t.owner

\* C10: the active positions without an owner form a group of their own in the
\* owner summaries, under the unknown-owner key, and the summaries'
\* num_positions add up to the number of active positions; stated here for
\* the logs that create every position first.
C10_UnknownOwnerGroup ==
    (lpc = "returned" /\ CreatedFirst) =>
        /\ (\E i \in 1..Len(active_df) : active_df[i].owner = NoOwner) =>
              \E g \in 1..Len(owner_df) :
                  /\ owner_df[g].owner = NoOwner
                  /\ owner_df[g].num_positions =
                         Len(SelectSeq(active_df, LAMBDA p : p.owner = NoOwner))
        /\ Sum([g \in 1..Len(owner_df) |-> owner_df[g].num_positions]) = Len(active_df)

\* --------------------------------------------------- aggregation: properties
\* The sum of f over the index set S.
RECURSIVE SetSum(_, _)
SetSum(f, S) ==
    IF S = {} THEN 0
    ELSE LET x == CHOOSE x \in S : TRUE IN f[x] + SetSum(f, S \ {x})

\* The places in the positions table of the positions owner o holds, and of
\* those of them with a positive balance.
HeldBy(o) == {i \in 1..Len(positions) : positions[i].owner = o}

ActiveHeldBy(o) == {i \in HeldBy(o) : positions[i].net_deposited > 0}

\* C11: a position whose net_deposited is zero or negative is in the positions
\* table with the expiry of its creation, is no row of the active frame, and
\* counts in no owner summary: the summary of its owner, if there is one, is
\* made of the owner's other positions only.
C11_InactiveExcluded ==
    lpc = "returned" =>
        \A i \in 1..Len(positions) :
            positions[i].net_deposited <= 0 =>
                /\ \E c \in Range(event_logs.pc_logs) :
                      c.pid = positions[i].position_id /\ c.expiry = positions[i].expiry_ts
                /\ \A a \in 1..Len(active_df) :
                      active_df[a].position_id # positions[i].position_id
                /\ \A g \in 1..Len(owner_df) :
                      owner_df[g].owner = positions[i].owner =>
                          LET rest == HeldBy(positions[i].owner) \ {i}
                              kept == {j \in rest : positions[j].net_deposited > 0}
                          IN  /\ kept # {}
                              /\ owner_df[g].num_positions = Cardinality(kept)
                              /\ owner_df[g].total_staked =
                                     SetSum([j \in kept |-> positions[j].net_deposited], kept)
                              /\ owner_df[g].total_stake_weight =
                                     SetSum([j \in kept |-> positions[j].stake], kept)
                              /\ \E j \in kept :
                                     owner_df[g].earliest_unlock = positions[j].expiry_ts
                              /\ \E j \in kept :
                                     owner_df[g].latest_unlock = positions[j].expiry_ts

\* An owner with a summary also holds an inactive position that carries stake
\* weight and unlocks before every position of the summary.
C11_InactiveBesideActive ==
    /\ lpc = "returned"
    /\ \E i \in 1..Len(positions), g \in 1..Len(owner_df) :
          /\ positions[i].net_deposited <= 0
          /\ positions[i].stake > 0
          /\ positions[i].owner = owner_df[g].owner
          /\ positions[i].expiry_ts < owner_df[g].earliest_unlock

\* C13: every owner summary is the aggregate of exactly the active positions
\* whose final owner is that owner: the sum of their net_deposited, the sum of
\* their stake, their number, the smallest and the largest of their expiries;
\* and every owner of an active position has one summary.
C13_GroupAggregates ==
    lpc = "returned" =>
        /\ \A g \in 1..Len(owner_df) :
              LET S == ActiveHeldBy(owner_df[g].owner)
              IN  /\ S # {}
                  /\ owner_df[g].total_staked =
                         SetSum([j \in S |-> positions[j].net_deposited], S)
                  /\ owner_df[g].total_stake_weight =
                         SetSum([j \in S |-> positions[j].stake], S)
                  /\ owner_df[g].num_positions = Cardinality(S)
                  /\ \A j \in S :
                         /\ owner_df[g].earliest_unlock <= positions[j].expiry_ts
                         /\ owner_df[g].latest_unlock >= positions[j].expiry_ts
                  /\ \E j \in S : owner_df[g].earliest_unlock = positions[j].expiry_ts
                  /\ \E j \in S : owner_df[g].latest_unlock = positions[j].expiry_ts
        /\ \A g, k \in 1..Len(owner_df) : owner_df[g].owner = owner_df[k].owner => g = k
        /\ \A i \in 1..Len(positions) :
              (positions[i].net_deposited > 0 /\ positions[i].owner # NoOwner) =>
                  \E g \in 1..Len(owner_df) : owner_df[g].owner = positions[i].owner

\* A summary over two positions of different expiries.
C13_TwoPositionsOneOwner ==
    /\ lpc = "returned"
    /\ \E g \in 1..Len(owner_df) :
          /\ owner_df[g].num_positions = 2
          /\ owner_df[g].earliest_unlock < owner_df[g].latest_unlock
          /\ owner_df[g].total_stake_weight # owner_df[g].total_staked

\* C14: the owner summaries come in non-increasing total_staked order, owners
\* of equal total_staked in their grouping order (groupby's sorted keys), and
\* the ranks are 1, 2, ..., n in output order.
C14_SortedStableRanked ==
    lpc = "returned" =>
        /\ \A g, k \in 1..Len(owner_df) :
              g < k => owner_df[g].total_staked >= owner_df[k].total_staked
        /\ \A g, k \in 1..Len(owner_df) :
              (g < k /\ owner_df[g].total_staked = owner_df[k].total_staked) =>
                  owner_df[g].owner < owner_df[k].owner
        /\ \A g \in 1..Len(owner_df) : owner_df[g].rank = g

\* ------------------------------------------------- projection: properties
\* Every fetched list is in (block, log index) order.
AllInEmissionOrder ==
    \A list \in {event_logs.dep_logs, event_logs.wth_logs, event_logs.rew_i_logs,
                 event_logs.rew_w_logs, event_logs.pc_logs, event_logs.tr_logs} :
        \A i, j \in 1..Len(list) : i < j => Before(list[i], list[j])

\* No withdrawal takes more than its position received before it.
NeverOverdrawn ==
    \A w \in Range(event_logs.wth_logs) :
        Amounts(SelectSeq(LogsOf(event_logs.dep_logs, w.pid), LAMBDA d : Before(d, w)))
            >= Amounts(SelectSeq(LogsOf(event_logs.wth_logs, w.pid),
                                 LAMBDA v : ~Before(w, v)))

\* C12: for a block-ordered input in which every position is created and then
\* receives its deposits, transfers and withdrawals, a position's net_deposited
\* is the sum of its funds_added minus the sum of its funds_removed, its stake
\* the sum of its stake_added, its owner the new owner of its last transfer, and
\* the net-flow series holds one sample per event, in event order, +funds_added
\* or -funds_removed, with the running sum as cumulative; stated here for the
\* runs whose lists arrived in event order, whose sort kept equal blocks in
\* row order and whose withdrawals never overdraw, a case of the claim.
C12_EndToEndBalance ==
    (/\ lpc = "returned"
     /\ CreatedFirst /\ AllInEmissionOrder /\ NeverOverdrawn /\ FlowTiesKept) =>
        /\ \A i \in 1..Len(positions) :
              LET p == positions[i]
                  transfers == LogsOf(event_logs.tr_logs, p.position_id)
              IN  /\ p.net_deposited =
                         Amounts(LogsOf(event_logs.dep_logs, p.position_id))
                         - Amounts(LogsOf(event_logs.wth_logs, p.position_id))
                  /\ p.stake = Stakes(LogsOf(event_logs.dep_logs, p.position_id))
                  /\ p.owner = IF transfers = <<>> THEN NoOwner
                               ELSE transfers[Len(transfers)].owner
        /\ \A log \in Range(event_logs.dep_logs) :
              \E j \in 1..Len(flow_df) :
                  flow_df[j].idx = log.idx /\ flow_df[j].net_flow = log.amount
        /\ \A log \in Range(event_logs.wth_logs) :
              \E j \in 1..Len(flow_df) :
                  flow_df[j].idx = log.idx /\ flow_df[j].net_flow = 0 - log.amount
        /\ \A i, j \in 1..Len(flow_df) :
              (/\ i < j
               /\ flow_df[i].event \in {"Deposit", "Withdrawal"}
               /\ flow_df[j].event \in {"Deposit", "Withdrawal"}) =>
                  Before(flow_df[i], flow_df[j])
        /\ \A i \in 1..Len(flow_df) :
              flow_df[i].cumulative_net_staked = Sum([j \in 1..i |-> flow_df[j].net_flow])

\* The record of list that comes last in (block, log index) order.
Latest(list) == CHOOSE r \in Range(list) : \A q \in Range(list) : ~Before(r, q)

\* C15: when a position id is created more than once no error is raised (the
\* run fails only for want of flow rows or of positions), the table holds one
\* position for the id, with the expiry and the validator of the later
\* creation; nothing else is lost: the owner and the balances are those of
\* all its transfers, deposits and withdrawals.  Stated here for the ids whose
\* first creation comes before every event that references them.
C15_DuplicateCreationOverwrites ==
    /\ lpc = "raised" => (FlowRows(event_logs) = <<>> \/ event_logs.pc_logs = <<>>)
    /\ lpc \in {"positions", "returned"} =>
          \A pid \in CreatedIds :
              LET created == LogsOf(event_logs.pc_logs, pid)
                  rows == {i \in 1..Len(positions) : positions[i].position_id = pid}
                  transfers == LogsOf(event_logs.tr_logs, pid)
                  used == Range(LogsOf(event_logs.dep_logs, pid))
                          \cup Range(LogsOf(event_logs.wth_logs, pid))
                          \cup Range(transfers)
              IN  (Len(created) >= 2 /\ \A log \in used : \E c \in Range(created) : Before(c, log)) =>
                      /\ Cardinality(rows) = 1
                      /\ \A i \in rows :
                            /\ positions[i].expiry_ts = Latest(created).expiry
                            /\ positions[i].validator = Latest(created).validator
                            /\ positions[i].net_deposited =
                                   Amounts(LogsOf(event_logs.dep_logs, pid))
                                   - Amounts(LogsOf(event_logs.wth_logs, pid))
                            /\ positions[i].stake = Stakes(LogsOf(event_logs.dep_logs, pid))
                            /\ IF transfers = <<>> THEN positions[i].owner = NoOwner
                               ELSE \E t \in Range(transfers) : positions[i].owner = t.owner

RewardsEvents == {"Rewards Issued", "Rewards Withdrawn"}

\* C16: every RewardsIssued and RewardsWithdrawn record has a sample of
\* exactly 0 in the net-flow series, the cumulative value at a rewards sample
\* is the one before it, and the positions are those of the run without the
\* rewards records.
C16_RewardsChangeNothing ==
    /\ lpc \in {"flow", "positions", "returned"} =>
          /\ \A log \in Range(event_logs.rew_i_logs) \cup Range(event_logs.rew_w_logs) :
                \E j \in 1..Len(flow_df) :
                    /\ flow_df[j].idx = log.idx
                    /\ flow_df[j].event \in RewardsEvents
                    /\ flow_df[j].amount = log.amount
          /\ \A j \in 1..Len(flow_df) :
                flow_df[j].event \in RewardsEvents =>
                    /\ flow_df[j].net_flow = 0
                    /\ flow_df[j].cumulative_net_staked =
                           IF j = 1 THEN 0 ELSE flow_df[j - 1].cumulative_net_staked
          /\ flow_df[Len(flow_df)].cumulative_net_staked =
                 Amounts(event_logs.dep_logs) - Amounts(event_logs.wth_logs)
    /\ lpc \in {"positions", "returned"} =>
          positions = BuildPositions([event_logs EXCEPT !.rew_i_logs = <<>>,
                                                        !.rew_w_logs = <<>>])

\* A rewards sample after a deposit's, beside a funded position.
C16_RewardsAfterDeposit ==
    /\ lpc = "returned"
    /\ \E i \in 1..Len(positions) : positions[i].net_deposited > 0
    /\ \E j \in 2..Len(flow_df) :
          /\ flow_df[j].event = "Rewards Issued"
          /\ flow_df[j].amount > 0
          /\ flow_df[j].cumulative_net_staked > 0

\* C17: a withdrawal for a known position sets its net_deposited to the value
\* before it minus funds_removed, also below zero, and the table's balance is
\* deposits minus withdrawals whatever their order, so that a deposit logged
\* after an overdrawing withdrawal adds to the negative value.
C17_WithdrawalsNotClamped ==
    lpc \in {"positions", "returned"} =>
        /\ positions = TableAfter(event_logs, Len(Steps(event_logs)))
        /\ \A k \in 1..Len(Steps(event_logs)) :
              LET log == Steps(event_logs)[k]
                  before == TableAfter(event_logs, k - 1)
                  after == TableAfter(event_logs, k)
              IN  log.kind = "FundsWithdrawn" =>
                      /\ Len(after) = Len(before)
                      /\ \A i \in 1..Len(before) :
                            after[i].net_deposited =
                                IF before[i].position_id = log.pid
                                THEN before[i].net_deposited - log.amount
                                ELSE before[i].net_deposited
        /\ \A i \in 1..Len(positions) :
              positions[i].net_deposited =
                  Amounts(LogsOf(event_logs.dep_logs, positions[i].position_id))
                  - Amounts(LogsOf(event_logs.wth_logs, positions[i].position_id))

\* A position overdrawn by a withdrawal larger than its deposit.
C17_NegativeBalance ==
    /\ lpc = "returned"
    /\ \E i \in 1..Len(positions) :
          /\ positions[i].net_deposited < 0
          /\ LogsOf(event_logs.dep_logs, positions[i].position_id) # <<>>

\* C19: the stake of a position never decreases while the table is built:
\* every record applied leaves the stake of every position at or above its
\* value before; a deposit adds its stake_added, which is not negative, and a
\* withdrawal or a transfer leaves every stake as it was.
C19_StakeNeverDecreases ==
    lpc \in {"positions", "returned"} =>
        /\ positions = TableAfter(event_logs, Len(Steps(event_logs)))
        /\ \A k \in 1..Len(Steps(event_logs)) :
              LET log == Steps(event_logs)[k]
                  before == TableAfter(event_logs, k - 1)
                  after == TableAfter(event_logs, k)
              IN  /\ Len(after) >= Len(before)
                  /\ \A i \in 1..Len(before) :
                        /\ after[i].position_id = before[i].position_id
                        /\ after[i].stake >= before[i].stake
                        /\ log.kind \in {"FundsWithdrawn", "Transfer"} =>
                               after[i].stake = before[i].stake
                        /\ log.kind = "FundsDeposited" =>
                               /\ log.stake >= 0
                               /\ after[i].stake =
                                      IF before[i].position_id = log.pid
                                      THEN before[i].stake + log.stake
                                      ELSE before[i].stake

\* A position with stake from a deposit, transferred and withdrawn from.
C19_StakeKeptThroughWithdrawal ==
    /\ lpc = "returned"
    /\ \E i \in 1..Len(positions) :
          /\ positions[i].stake > 0
          /\ LogsOf(event_logs.wth_logs, positions[i].position_id) # <<>>
          /\ LogsOf(event_logs.tr_logs, positions[i].position_id) # <<>>

\* Some fetched list holds a record of a lower block after one of a higher.
BlockOrderViolated ==
    \E list \in {event_logs.dep_logs, event_logs.wth_logs, event_logs.rew_i_logs,
                 event_logs.rew_w_logs, event_logs.pc_logs, event_logs.tr_logs} :
        \E i, j \in 1..Len(list) : i < j /\ list[i].block > list[j].block

\* C18: a run whose input is not block-ascending ends with an error: it
\* returns no positions table and no net-flow series.
C18_OrderingViolationRejected == BlockOrderViolated => lpc # "returned"

\* ------------------------------------------------ batch and fold: properties
\* The records of the set S as a sequence in (block, log index) order.
RECURSIVE InLogOrder(_)
InLogOrder(S) ==
    IF S = {} THEN <<>>
    ELSE LET r == CHOOSE r \in S : \A q \in S : ~Before(q, r)
         IN  <<r>> \o InLogOrder(S \ {r})

\* The fetched position events merged in (block, log index) order, and the
\* table a single left-to-right fold over them builds.
Merged == InLogOrder(Range(Steps(event_logs)))

FoldTable == ApplyAll(<<>>, Merged)

PositionLists ==
    {event_logs.pc_logs, event_logs.tr_logs, event_logs.dep_logs, event_logs.wth_logs}

\* Each kind's records arrive block-ascending.
ArriveBlockAscending ==
    \A list \in PositionLists :
        \A i, j \in 1..Len(list) : i < j => list[i].block <= list[j].block

\* Each kind's records arrive in (block, log index) order.
ArriveInLogOrder ==
    \A list \in PositionLists :
        \A i, j \in 1..Len(list) : i < j => Before(list[i], list[j])

\* C20, as claimed: when every position is created once, before any event
\* that references it, and each kind's records arrive block-ascending, the
\* kind-by-kind table is the table of the fold over the merged events.
C20_BatchEqualsFold_BlockAscending ==
    (lpc \in {"positions", "returned"} /\ CreatedFirst /\ ArriveBlockAscending) =>
        positions = FoldTable

\* The same statement for runs in which each kind's records arrive in (block,
\* log index) order, the records of one block in their log order too: there
\* the kind-by-kind table is the table of the fold.
C20_BatchEqualsFold ==
    (lpc \in {"positions", "returned"} /\ CreatedFirst /\ ArriveInLogOrder) =>
        positions = FoldTable

\* A well-formed run in which the loops apply the records in another order
\* than the log's and the position changes hands twice.
C20_InterleavedKinds ==
    /\ lpc = "returned"
    /\ CreatedFirst /\ ArriveInLogOrder
    /\ Steps(event_logs) # Merged
    /\ \E t, u \in Range(event_logs.tr_logs) : t.pid = u.pid /\ t.owner # u.owner
    /\ \E i \in 1..Len(positions) : positions[i].net_deposited > 0
\* --------------------------------------------- conservation: properties
\* The float sums of the numbers of the sequence s, added up in any order.
FloatSums(s) == {FSum(p) : p \in Perms(s)}

\* The deposits and withdrawals fetched for ids that were never created, as
\* signed amounts.
UnknownIdFlows ==
    LET unknown(list) == SelectSeq(list, LAMBDA r : r.pid \notin CreatedIds)
        dep == unknown(event_logs.dep_logs)
        wth == unknown(event_logs.wth_logs)
    IN  [i \in 1..Len(dep) |-> dep[i].amount] \o [i \in 1..Len(wth) |-> 0 - wth[i].amount]

\* net_deposited of every position of the table.
NetDeposited == [i \in 1..Len(positions) |-> positions[i].net_deposited]

\* net_staked: the last value of the cumulative net-staked series.
net_staked == flow_df[Len(flow_df)].cumulative_net_staked

\* total_staked = owner_df["total_staked"].sum()
total_staked == FSum([g \in 1..Len(owner_df) |-> owner_df[g].total_staked])

\* C21: after a run the last cumulative net-staked value is the sum of
\* net_deposited over all positions of the table plus the signed amounts of
\* the deposits and withdrawals to ids never created; and when every event
\* references a created position, every active position has an owner and no
\* position is negative, the owner summaries' total_staked add up to it.
\* The sums of the first part are float sums taken in whichever order makes
\* the two sides agree.
C21_Conservation ==
    lpc = "returned" =>
        /\ \/ net_staked \in FloatSums(NetDeposited \o UnknownIdFlows)
           \/ \E x \in FloatSums(NetDeposited), y \in FloatSums(UnknownIdFlows) :
                  net_staked = FAdd(x, y)
        /\ (/\ UnknownIdFlows = <<>>
            /\ \A i \in 1..Len(active_df) : active_df[i].owner # NoOwner
            /\ \A i \in 1..Len(positions) : positions[i].net_deposited >= 0)
               => total_staked = net_staked
====
